---- MODULE Spec2Model ----
(***************************************************************************)
(* Model of luminoth/utils/losses.py (focal_loss, smooth_l1_loss) and      *)
(* luminoth/utils/safe_wrappers.py (safe_softmax).                         *)
(*                                                                         *)
(* The three functions are pure.  Each is modelled as one action that      *)
(* takes a call frame from pc = "start" (arguments bound) to pc = "done"   *)
(* (every local of the function and its return value bound).  Tensor       *)
(* elements are exact rationals <<numerator, denominator>>; rounding of    *)
(* the float32 kernels is outside the model.                               *)
(***************************************************************************)
EXTENDS Integers, Sequences, FiniteSets, TLC

VARIABLES ss, sl1, fl

vars == <<ss, sl1, fl>>

(***************************************************************************)
(* Bounds of the model.                                                    *)
(***************************************************************************)
MaxRows == 2
MaxCols == 2
MaxRank == 4
MaxElems == 2
MaxCells == 4

(***************************************************************************)
(* Exact rational arithmetic: the element type of every float tensor.      *)
(***************************************************************************)
RECURSIVE GCD(_, _)
GCD(a, b) == IF b = 0 THEN a ELSE GCD(b, a % b)

IAbs(n) == IF n < 0 THEN -n ELSE n

Norm(n, d) ==
    LET s == IF d < 0 THEN -1 ELSE 1
        g == GCD(IAbs(n), IAbs(d))
    IN  <<(s * n) \div g, (s * d) \div g>>

R(n) == <<n, 1>>
Frac(n, d) == Norm(n, d)

RAdd(a, b) == Norm(a[1] * b[2] + b[1] * a[2], a[2] * b[2])
RSub(a, b) == Norm(a[1] * b[2] - b[1] * a[2], a[2] * b[2])
RMul(a, b) == Norm(a[1] * b[1], a[2] * b[2])
RDiv(a, b) == Norm(a[1] * b[2], a[2] * b[1])
RAbs(a) == <<IAbs(a[1]), a[2]>>
RLess(a, b) == a[1] * b[2] < b[1] * a[2]
RSquare(a) == RMul(a, a)
RMax(a, b) == IF RLess(a, b) THEN b ELSE a

RECURSIVE RSumSeq(_)
RSumSeq(s) == IF s = <<>> THEN R(0) ELSE RAdd(Head(s), RSumSeq(Tail(s)))

RECURSIVE RMaxSeq(_)
RMaxSeq(s) == IF Len(s) = 1 THEN s[1] ELSE RMax(Head(s), RMaxSeq(Tail(s)))

(***************************************************************************)
(* safe_softmax                                                            *)
(***************************************************************************)
InputVals == {0, 1, 2}
DTypes == {"float32", "float64"}

\* exp() of the softmax kernel on the integer-valued scores of the model.
\* Base 2 stands for e: every property checked below is base independent.
Exp(x) == R(2 ^ x)

\* tf.nn.softmax on one row.
SoftmaxRow(row) ==
    LET e == [c \in 1..Len(row) |-> Exp(row[c])]
        z == RSumSeq(e)
    IN  [c \in 1..Len(row) |-> RDiv(e[c], z)]

\* tf.nn.softmax(inputs): row-wise normalisation, keeps shape and dtype.
Softmax(inputs) ==
    [kind  |-> "softmax",
     shape |-> inputs.shape,
     dtype |-> inputs.dtype,
     data  |-> [r \in 1..Len(inputs.data) |-> SoftmaxRow(inputs.data[r])]]

\* tf.constant([], dtype=inputs.dtype): a rank-1 tensor with no element.
EmptyConstant(inputs) ==
    [kind  |-> "constant",
     shape |-> <<0>>,
     dtype |-> inputs.dtype,
     data  |-> <<>>]

\* Faulty variant of SafetyCondition: the guard written as >= 0.
SafetyCondition_GreaterEqual(input_length) == input_length >= 0

\* tf.greater(input_length, 0)
SafetyCondition(input_length) == input_length > 0

\* tf.cond: only the selected branch's ops are executed.
SafeSoftmaxResult(inputs) ==
    LET input_length == inputs.shape[1]
    IN  IF SafetyCondition(input_length)
        THEN [ret |-> Softmax(inputs), softmax_calls |-> 1]
        ELSE [ret |-> EmptyConstant(inputs), softmax_calls |-> 0]

IdleFrame == [pc |-> "idle"]

InitSafeSoftmax ==
    /\ \E rows \in 0..MaxRows, cols \in 1..MaxCols, dt \in DTypes :
         \E d \in [1..rows -> [1..cols -> InputVals]] :
           ss = [pc |-> "start",
                 inputs |-> [shape |-> <<rows, cols>>, dtype |-> dt, data |-> d],
                 softmax_calls |-> 0]
    /\ sl1 = IdleFrame
    /\ fl = IdleFrame

safe_softmax ==
    /\ ss.pc = "start"
    /\ ss' = [pc |-> "done"] @@ SafeSoftmaxResult(ss.inputs) @@ ss
    /\ UNCHANGED <<sl1, fl>>

NextSafeSoftmax == safe_softmax

SpecSafeSoftmax == InitSafeSoftmax /\ [][NextSafeSoftmax]_vars

\* C1: safe_softmax runs the softmax normalisation iff the leading dimension
\* of the input is greater than 0.  With 0 rows the normalisation is never
\* executed and the result is an empty tensor of the input's element type;
\* with >= 1 rows the result is the row-wise softmax of the input (same
\* shape, every row sums to 1, entries proportional to exp of the scores).
\* Exactly one of the two outcomes is reached.
C1_SafeSoftmaxGuard ==
    ss.pc = "done" =>
        LET rows == ss.inputs.shape[1]
            x    == ss.inputs.data
            y    == ss.ret.data
        IN  /\ (ss.softmax_calls = 1) <=> (rows > 0)
            /\ ss.softmax_calls \in {0, 1}
            /\ (ss.ret.kind = "softmax") <=> (ss.ret.kind # "constant")
            /\ rows = 0 =>
                 /\ ss.ret.kind = "constant"
                 /\ ss.ret.data = <<>>
                 /\ ss.ret.dtype = ss.inputs.dtype
            /\ rows >= 1 =>
                 /\ ss.ret.kind = "softmax"
                 /\ ss.ret.shape = ss.inputs.shape
                 /\ ss.ret.dtype = ss.inputs.dtype
                 /\ Len(y) = rows
                 /\ \A r \in 1..rows :
                      /\ Len(y[r]) = Len(x[r])
                      /\ RSumSeq(y[r]) = R(1)
                      /\ \A c \in 1..Len(x[r]) : RLess(R(0), y[r][c])
                      /\ \A c1, c2 \in 1..Len(x[r]) :
                           RMul(y[r][c1], R(2 ^ x[r][c2])) =
                           RMul(y[r][c2], R(2 ^ x[r][c1]))

C1_Witness_EmptyInput ==
    /\ ss.pc = "done"
    /\ ss.inputs.shape[1] = 0
    /\ ss.inputs.dtype = "float64"
    /\ ss.ret.kind = "constant"
    /\ ss.softmax_calls = 0

(***************************************************************************)
(* Tensors of arbitrary rank: [shape, data], data a function from the      *)
(* index tuples of the shape (1-based) to elements.                        *)
(***************************************************************************)
RECURSIVE Prod(_)
Prod(s) == IF s = <<>> THEN 1 ELSE Head(s) * Prod(Tail(s))

Indices(shape) ==
    { idx \in [1..Len(shape) -> 1..MaxElems] :
        \A k \in 1..Len(shape) : idx[k] <= shape[k] }

\* The sequence s without its k-th entry / with v put before its k-th entry.
RemoveAt(s, k) == [j \in 1..(Len(s) - 1) |-> IF j < k THEN s[j] ELSE s[j + 1]]
InsertAt(s, k, v) ==
    [j \in 1..(Len(s) + 1) |-> IF j < k THEN s[j] ELSE IF j = k THEN v ELSE s[j - 1]]

\* tf.reduce_sum(t, [axis]) with a 0-based axis: the axis is summed away.
ReduceSum(t, axis) ==
    LET k   == axis + 1
        out == RemoveAt(t.shape, k)
    IN  [shape |-> out,
         data  |-> [idx \in Indices(out) |->
                      RSumSeq([j \in 1..t.shape[k] |-> t.data[InsertAt(idx, k, j)]])]]

(***************************************************************************)
(* smooth_l1_loss                                                          *)
(***************************************************************************)
Half == Frac(1, 2)

\* The axis list [1] handed to tf.reduce_sum.
ReductionAxis == 1

\* Faulty variant of Abs: the absolute value left out.
Abs_Identity(x) == x

\* tf.abs on one element.
Abs(x) == RAbs(x)

\* Faulty variant of Less: the comparison written as <=.
Less_OrEqual(x, y) == ~RLess(y, x)

\* Faulty variant of Less: the operands swapped.
Less_Swapped(x, y) == RLess(y, x)

\* tf.less on one element.
Less(x, y) == RLess(x, y)

\* 0.5 * sigma2 * tf.square(abs_diff) on one element.
QuadraticBranch(abs_diff, sigma2) == RMul(RMul(Half, sigma2), RSquare(abs_diff))

\* Faulty variant of LinearBranch: the docstring's "abs(x) - 0.5", sigma2 left out.
LinearBranch_NoSigma(abs_diff, sigma2) == RSub(abs_diff, Half)

\* abs_diff - 0.5 / sigma2 on one element.
LinearBranch(abs_diff, sigma2) == RSub(abs_diff, RDiv(Half, sigma2))

\* The body of smooth_l1_loss: every local and the returned bbox_loss.
SmoothL1Loss(bbox_prediction, bbox_target, sigma) ==
    LET sigma2   == RSquare(sigma)
        diff     ==
            [shape |-> bbox_prediction.shape,
             data  |-> [i \in DOMAIN bbox_prediction.data |->
                          RSub(bbox_prediction.data[i], bbox_target.data[i])]]
        abs_diff ==
            [shape |-> diff.shape,
             data  |-> [i \in DOMAIN diff.data |-> Abs(diff.data[i])]]
        thresh   == RDiv(R(1), sigma2)
        abs_diff_lt_sigma2 ==
            [shape |-> abs_diff.shape,
             data  |-> [i \in DOMAIN abs_diff.data |-> Less(abs_diff.data[i], thresh)]]
        elem_loss ==
            [shape |-> abs_diff.shape,
             data  |-> [i \in DOMAIN abs_diff.data |->
                          IF abs_diff_lt_sigma2.data[i]
                          THEN QuadraticBranch(abs_diff.data[i], sigma2)
                          ELSE LinearBranch(abs_diff.data[i], sigma2)]]
    IN  [sigma2 |-> sigma2,
         diff |-> diff,
         abs_diff |-> abs_diff,
         abs_diff_lt_sigma2 |-> abs_diff_lt_sigma2,
         elem_loss |-> elem_loss,
         bbox_loss |-> ReduceSum(elem_loss, ReductionAxis)]

BoxVals == {R(0), Frac(1, 4), R(1)}
Sigmas == {R(1), R(2), Frac(-1, 2)}

\* Shapes (..., 4*A) of rank 2..MaxRank holding at most MaxElems elements.
BoxShapes ==
    UNION { { s \in [1..rank -> 1..MaxElems] : Prod(s) <= MaxElems }
            : rank \in 2..MaxRank }

InitSmoothL1 ==
    /\ \E shape \in BoxShapes, sigma \in Sigmas :
         \E p \in [Indices(shape) -> BoxVals], t \in [Indices(shape) -> BoxVals] :
           sl1 = [pc |-> "start",
                  bbox_prediction |-> [shape |-> shape, data |-> p],
                  bbox_target |-> [shape |-> shape, data |-> t],
                  sigma |-> sigma]
    /\ ss = IdleFrame
    /\ fl = IdleFrame

smooth_l1_loss ==
    /\ sl1.pc = "start"
    /\ sl1' = [pc |-> "done"]
              @@ SmoothL1Loss(sl1.bbox_prediction, sl1.bbox_target, sl1.sigma)
              @@ sl1
    /\ UNCHANGED <<ss, fl>>

NextSmoothL1 == smooth_l1_loss

SpecSmoothL1 == InitSmoothL1 /\ [][NextSmoothL1]_vars

\* C2: for same-shaped inputs of any rank >= 2, smooth_l1_loss sums the
\* per-element losses along the innermost (last) axis: the output has the
\* input shape without its last axis, and each entry is the sum of the
\* per-element losses of that row.
C2_SumsOverLastAxis ==
    sl1.pc = "done" =>
        LET rank == Len(sl1.bbox_prediction.shape)
        IN  /\ sl1.bbox_loss.shape = RemoveAt(sl1.bbox_prediction.shape, rank)
            /\ sl1.bbox_loss = ReduceSum(sl1.elem_loss, rank - 1)

C7_Symmetric ==
    sl1.pc = "done" =>
        sl1.bbox_loss =
            SmoothL1Loss(sl1.bbox_target, sl1.bbox_prediction, sl1.sigma).bbox_loss

C7_Witness_AsymmetricInputs ==
    /\ sl1.pc = "done"
    /\ sl1.sigma = R(2)
    /\ \E i \in DOMAIN sl1.diff.data :
         /\ RLess(sl1.diff.data[i], R(0))
         /\ ~sl1.abs_diff_lt_sigma2.data[i]

\* C8: smooth_l1_loss(x, x, sigma) is 0 in every output entry.
C8_ZeroOnEqualInputs ==
    (sl1.pc = "done" /\ sl1.bbox_prediction = sl1.bbox_target) =>
        \A idx \in DOMAIN sl1.bbox_loss.data : sl1.bbox_loss.data[idx] = R(0)

C8_Witness_EqualInputs ==
    /\ sl1.pc = "done"
    /\ sl1.bbox_prediction = sl1.bbox_target
    /\ Len(sl1.bbox_prediction.shape) = 4
    /\ \E i \in DOMAIN sl1.bbox_prediction.data : sl1.bbox_prediction.data[i] # R(0)
    /\ sl1.sigma # R(1)
    /\ \A idx \in DOMAIN sl1.bbox_loss.data : sl1.bbox_loss.data[idx] = R(0)

LScale(r, v) == IF r = R(0) THEN {} ELSE { <<t[1], RMul(r, t[2])>> : t \in v }

\* tf.one_hot(tf.cast(targets, tf.int32), depth) on one target: position
\* target (0-based) holds 1, an out-of-range target gives a zero row.
OneHotRow(target, depth) ==
    [j \in 1..depth |-> IF j - 1 = target THEN R(1) ELSE R(0)]

\* tf.nn.softmax_cross_entropy_with_logits on one row:
\* sum_j labels[j] * (-log softmax(logits)[j]).
XentRow(labels, logits) ==
    LET q     == SoftmaxRow(logits)
        atoms == { q[j] : j \in DOMAIN q } \ {R(1)}
        coef(a) == RSumSeq([j \in DOMAIN q |-> IF q[j] = a THEN labels[j] ELSE R(0)])
    IN  { t \in { <<a, coef(a)>> : a \in atoms } : t[2] # R(0) }

\* Faulty variant of WhereBackground: x and y of tf.where swapped.
WhereBackground_Swapped(target, x, y) == IF target = 0 THEN y ELSE x

\* tf.where(tf.equal(targets, 0.), x, y) on one example.
WhereBackground(target, x, y) == IF target = 0 THEN x ELSE y

RECURSIVE RMinSeq(_)
RMinSeq(s) ==
    IF Len(s) = 1 THEN s[1]
    ELSE LET m == RMinSeq(Tail(s)) IN IF RLess(Head(s), m) THEN Head(s) ELSE m

\* Faulty variant of ReduceMaxAxis1: tf.reduce_min in place of tf.reduce_max.
ReduceMaxAxis1_Min(m) == [i \in 1..Len(m) |-> RMinSeq(m[i])]

\* Faulty variant of ReduceMaxAxis1: the reduction done over axis 0, one entry per
\* class instead of one per example.
ReduceMaxAxis1_Axis0(m) ==
    IF m = <<>> THEN <<>>
    ELSE [j \in 1..Len(m[1]) |-> RMaxSeq([i \in 1..Len(m) |-> m[i][j]])]

\* tf.reduce_max(m, axis=1) of an N x D matrix: one entry per row.
ReduceMaxAxis1(m) == [i \in 1..Len(m) |-> RMaxSeq(m[i])]

RECURSIVE Pow_ZeroToZeroIsZero(_, _)
\* Faulty variant of Pow: 0^0 taken as 0.
Pow_ZeroToZeroIsZero(base, gamma) ==
    IF base = R(0) THEN R(0)
    ELSE IF gamma = 0 THEN R(1) ELSE RMul(base, Pow_ZeroToZeroIsZero(base, gamma - 1))

RECURSIVE Pow(_, _)
\* tf.pow on one element, gamma a natural number; pow(0, 0) = 1.
Pow(base, gamma) == IF gamma = 0 THEN R(1) ELSE RMul(base, Pow(base, gamma - 1))

\* Broadcasting of two rank-1 operands of an element-wise op.
Broadcastable(a, b) == Len(a) = Len(b) \/ Len(a) = 1 \/ Len(b) = 1
BroadcastLen(a, b) ==
    IF Len(a) = Len(b) THEN Len(a) ELSE IF Len(a) = 1 THEN Len(b) ELSE Len(a)
At(a, i) == IF Len(a) = 1 THEN a[1] ELSE a[i]

\* tf.multiply of a rank-1 float tensor with a rank-1 cross-entropy tensor;
\* the empty tensor stands for the result of a call that raised.
Multiply(r, v) ==
    IF Broadcastable(r, v)
    THEN [i \in 1..BroadcastLen(r, v) |-> LScale(At(r, i), At(v, i))]
    ELSE <<>>

\* The body of focal_loss: every local and the returned focal_loss.
FocalLoss(cls_score, cls_prob, targets, num_classes, gamma, weights, background_divider) ==
    LET N == Len(targets)
        targets_one_hot == [i \in 1..N |-> OneHotRow(targets[i], num_classes + 1)]
        cross_entropy == [i \in 1..N |-> XentRow(targets_one_hot[i], cls_score[i])]
        weights_ == [i \in 1..N |->
                       WhereBackground(targets[i],
                                       RDiv(weights, background_divider), weights)]
        weighted_cross_entropy == Multiply(weights_, cross_entropy)
        prob_one_hot == [i \in 1..N |->
                           [j \in 1..(num_classes + 1) |->
                              RMul(cls_prob[i][j], targets_one_hot[i][j])]]
        p_t == ReduceMaxAxis1(prob_one_hot)
        focal_weights == [i \in 1..Len(p_t) |-> Pow(RSub(R(1), p_t[i]), gamma)]
    IN  [targets_one_hot |-> targets_one_hot,
         cross_entropy |-> cross_entropy,
         weights |-> weights_,
         weighted_cross_entropy |-> weighted_cross_entropy,
         p_t |-> p_t,
         focal_weights |-> focal_weights,
         raised |-> ~Broadcastable(weights_, cross_entropy)
                    \/ ~Broadcastable(focal_weights, weighted_cross_entropy),
         focal_loss |-> Multiply(focal_weights, weighted_cross_entropy)]

ScoreVals == {0, 1}
ProbVals == {R(0), Frac(1, 2), R(1)}
\* <<weights, background_divider>>
WeightArgs == {<<R(1), R(1)>>, <<R(3), R(2)>>}
\* gamma: 0 (no focusing) and the default 2.0
Gammas == {0, 2}

InitFocal ==
    /\ \E N \in 0..MaxCells, depth \in 1..MaxCells :
         /\ N * depth <= MaxCells
         /\ \E S \in [1..N -> [1..depth -> ScoreVals]],
               P \in [1..N -> [1..depth -> ProbVals]],
               T \in [1..N -> 0..(depth - 1)],
               g \in Gammas,
               wb \in WeightArgs :
              fl = [pc |-> "start",
                    cls_score |-> S,
                    cls_prob |-> P,
                    targets |-> T,
                    num_classes |-> depth - 1,
                    gamma |-> g,
                    weights_arg |-> wb[1],
                    background_divider |-> wb[2]]
    /\ ss = IdleFrame
    /\ sl1 = IdleFrame

focal_loss ==
    /\ fl.pc = "start"
    /\ fl' = [pc |-> "done"]
             @@ FocalLoss(fl.cls_score, fl.cls_prob, fl.targets, fl.num_classes,
                          fl.gamma, fl.weights_arg, fl.background_divider)
             @@ fl
    /\ UNCHANGED <<ss, sl1>>

NextFocal == focal_loss

SpecFocal == InitFocal /\ [][NextFocal]_vars

(***************************************************************************)
(* The three functions together.                                           *)
(***************************************************************************)
Init == InitSafeSoftmax \/ InitSmoothL1 \/ InitFocal

Next == safe_softmax \/ smooth_l1_loss \/ focal_loss

Spec == Init /\ [][Next]_vars

C5_GammaZeroIsCrossEntropy ==
    (/\ fl.pc = "done"
     /\ fl.gamma = 0
     /\ fl.weights_arg = R(1)
     /\ fl.background_divider = R(1)) =>
        /\ Len(fl.focal_loss) = Len(fl.targets)
        /\ \A i \in 1..Len(fl.targets) :
             fl.focal_loss[i] =
                 XentRow([j \in 1..(fl.num_classes + 1) |->
                            IF j = fl.targets[i] + 1 THEN R(1) ELSE R(0)],
                         fl.cls_score[i])

C5_Witness_CertainExample ==
    /\ fl.pc = "done"
    /\ fl.gamma = 0
    /\ fl.weights_arg = R(1)
    /\ fl.background_divider = R(1)
    /\ \E i \in 1..Len(fl.targets) :
         /\ fl.cls_prob[i][fl.targets[i] + 1] = R(1)
         /\ fl.focal_loss[i] # {}

\* C6: for valid inputs the result is an unreduced vector with one entry per
\* example; with N = 0 the call does not raise and returns the empty vector.
C6_OutputLength ==
    fl.pc = "done" =>
        /\ ~fl.raised
        /\ Len(fl.focal_loss) = Len(fl.targets)
        /\ Len(fl.targets) = 0 => fl.focal_loss = <<>>

C6_Witness_EmptyBatch ==
    /\ fl.pc = "done"
    /\ Len(fl.targets) = 0
    /\ fl.num_classes = 1
    /\ ~fl.raised
    /\ fl.focal_loss = <<>>

\* C10: for every example i with probabilities in [0, 1], the maximum along
\* the class axis of cls_prob[i] * one_hot(targets[i]) is the probability of
\* the true class, cls_prob[i][targets[i]], and the returned loss is
\* (1 - cls_prob[i][targets[i]])^gamma times the weighted cross-entropy.
C10_TrueClassProbability ==
    fl.pc = "done" =>
        \A i \in 1..Len(fl.targets) :
            LET pt == fl.cls_prob[i][fl.targets[i] + 1]
            IN  /\ fl.p_t[i] = pt
                /\ fl.focal_loss[i] =
                     LScale(Pow(RSub(R(1), pt), fl.gamma), fl.weighted_cross_entropy[i])

C10_Witness_UncertainExample ==
    /\ fl.pc = "done"
    /\ fl.gamma = 2
    /\ \E i \in 1..Len(fl.targets) :
         /\ fl.num_classes >= 1
         /\ fl.targets[i] >= 1
         /\ fl.p_t[i] = Frac(1, 2)
         /\ fl.focal_weights[i] = Frac(1, 4)
         /\ fl.focal_loss[i] # {}

====
